---- MODULE Spec2Model ----
(***************************************************************************)
(* Model of test3/start-test-server.py: a static file server built on      *)
(* socketserver.TCPServer and http.server.SimpleHTTPRequestHandler whose   *)
(* handler subclass overrides end_headers to add three CORS headers.       *)
(*                                                                         *)
(* The script is 47 lines; what it inherits from the standard library      *)
(* (request parsing, path translation, send_head, the serve loop) is       *)
(* modelled from CPython 3.11's http/server.py, socketserver.py and        *)
(* posixpath.py at the place of the script that pulls it in.               *)
(***************************************************************************)
EXTENDS Integers, Sequences, FiniteSets, TLC

(***************************************************************************)
(* Bounds of the model.                                                    *)
(***************************************************************************)
\* Longest request path, in '/'-separated segments.
MaxSegs == 2
\* Client connections that can be open (queued or being handled) at once.
MaxConns == 2

(***************************************************************************)
(* Program constants.                                                      *)
(***************************************************************************)
\* the literal in "if e.errno == 48:  # Address already in use"
ERRNO_CHECKED == 48

(***************************************************************************)
(* The platform: what errno a bind on a port in use carries.               *)
(* EADDRINUSE is 48 on macOS/BSD, 98 on Linux, 10048 (WSAEADDRINUSE) on    *)
(* Windows.                                                                *)
(***************************************************************************)
Platforms == {"darwin", "linux", "win32"}

EADDRINUSE(platform) ==
    CASE platform = "darwin" -> 48
      [] platform = "linux"  -> 98
      [] platform = "win32"  -> 10048

\* errno of a bind that fails for another reason (EACCES).
OtherErrnos == {13}

(***************************************************************************)
(* The file system.  A path is the sequence of its component names from    *)
(* "/"; the script lives in /w, which os.chdir makes the working           *)
(* directory and SimpleHTTPRequestHandler.__init__ takes as                *)
(* self.directory.  /a is a file outside the serving root.                 *)
(***************************************************************************)
Root == <<"w">>

File(data, mtime, readable) ==
    [kind |-> "file", data |-> data, mtime |-> mtime, readable |-> readable]

Dir == [kind |-> "dir", data |-> "", mtime |-> 0, readable |-> TRUE]

FS ==
    (<< >>                  :> Dir) @@
    (<<"a">>                :> File("SECRET", 1, TRUE)) @@
    (<<"w">>                :> Dir) @@
    (<<"w", "a">>           :> File("A", 1, TRUE)) @@
    (<<"w", "index.html">>  :> File("INDEX", 1, TRUE)) @@
    (<<"w", "s">>           :> Dir) @@
    (<<"w", "s", "a">>      :> File("SA", 1, TRUE)) @@
    (<<"w", "s", "s">>      :> File("LOCKED", 1, FALSE))

IsPrefix(p, q) == Len(p) <= Len(q) /\ SubSeq(q, 1, Len(p)) = p

UnderRoot(p) == IsPrefix(Root, p)

\* What the operating system does with ".." and "." when a path is opened.
RECURSIVE OsResolve(_, _)
OsResolve(words, acc) ==
    IF words = << >> THEN acc
    ELSE LET w == Head(words) IN
         IF w = "." THEN OsResolve(Tail(words), acc)
         ELSE IF w = ".."
              THEN OsResolve(Tail(words),
                             IF acc = << >> THEN acc
                             ELSE SubSeq(acc, 1, Len(acc) - 1))
              ELSE OsResolve(Tail(words), Append(acc, w))

Exists(p) == p \in DOMAIN FS
IsDir(p)  == Exists(p) /\ FS[p].kind = "dir"
IsFile(p) == Exists(p) /\ FS[p].kind = "file"

(***************************************************************************)
(* Requests.  A request path is written as a leading-slash flag, its raw   *)
(* (still percent-encoded) segments and a trailing-slash flag.             *)
(***************************************************************************)
Segs == {"a", "s", "index.html", "..", "%2E%2E", "..%2Fa"}

SeqsUpTo(S, n) == UNION {[1..k -> S] : k \in 0..n}

Paths ==
    {p \in [abs : BOOLEAN, segs : SeqsUpTo(Segs, MaxSegs), trail : BOOLEAN] :
        p.segs = << >> => (p.abs /\ ~p.trail)}

Methods == {"GET", "HEAD", "OPTIONS", "POST"}

\* The last word of the request line: a supported version, none at all (an
\* HTTP/0.9 simple request, written ""), or something that is no version.
Versions == {"HTTP/1.1", "", "FOO/1.1"}

\* If-Modified-Since, as a time: -1 when the header is absent.
IMS == {-1, 0, 1}

Requests == [method : Methods, version : Versions, path : Paths, ims : IMS]

(***************************************************************************)
(* SimpleHTTPRequestHandler.translate_path, inherited by                   *)
(* MyHTTPRequestHandler: unquote, posixpath.normpath, split on '/', drop   *)
(* the empty words and the words that are not a simple name, join to       *)
(* self.directory.                                                         *)
(***************************************************************************)
\* urllib.parse.unquote on one raw segment, as the '/'-separated words of
\* the decoded text: %2E is '.', %2F is '/'.
Unquote(seg) ==
    CASE seg = "%2E%2E" -> <<"..">>
      [] seg = "..%2Fa" -> <<"..", "a">>
      [] OTHER          -> <<seg>>

RECURSIVE UnquoteAll(_)
UnquoteAll(segs) ==
    IF segs = << >> THEN << >> ELSE Unquote(Head(segs)) \o UnquoteAll(Tail(segs))

\* posixpath.normpath's loop over the components.
RECURSIVE NormComps(_, _, _)
NormComps(comps, new, abs) ==
    IF comps = << >> THEN new
    ELSE LET comp == Head(comps) IN
         IF comp \in {"", "."} THEN NormComps(Tail(comps), new, abs)
         ELSE IF \/ comp # ".."
                 \/ (~abs /\ new = << >>)
                 \/ (new # << >> /\ new[Len(new)] = "..")
              THEN NormComps(Tail(comps), Append(new, comp), abs)
              ELSE IF new # << >>
                   THEN NormComps(Tail(comps), SubSeq(new, 1, Len(new) - 1), abs)
                   ELSE NormComps(Tail(comps), new, abs)

\* posixpath.normpath followed by split('/') and filter(None, words): the
\* normal form of an empty relative path is ".".
NormWords(abs, words) ==
    LET comps == NormComps(words, << >>, abs) IN
    IF comps = << >> /\ ~abs THEN <<".">> ELSE comps

\* "if os.path.dirname(word) or word in (os.curdir, os.pardir): continue".
\* After the split on '/' no word holds a separator, so dirname is empty.
IgnoredWordNoPardir(word) == word = "."

IgnoredWord(word) == word \in {".", ".."}

KeepWord(word) == ~IgnoredWord(word)

\* A translation that keeps only the last word of the path.
TranslatePathLastWord(path) ==
    LET words == SelectSeq(NormWords(path.abs, UnquoteAll(path.segs)), KeepWord) IN
    [fs    |-> Root \o (IF words = << >> THEN << >> ELSE <<words[Len(words)]>>),
     trail |-> path.trail \/ path.segs = << >>]

\* The local path translate_path returns, and whether it ends in '/'.
TranslatePath(path) ==
    [fs    |-> Root \o SelectSeq(NormWords(path.abs, UnquoteAll(path.segs)), KeepWord),
     trail |-> path.trail \/ path.segs = << >>]

(***************************************************************************)
(* The response side of a request handler.  A handler h holds the request  *)
(* version it has parsed, the command, the header buffer, what it has      *)
(* written to the connection, and the path it opened (or listed).          *)
(***************************************************************************)
NoFile == <<"<none>">>

Line(t, k, v) == [t |-> t, k |-> k, v |-> v]

EndOfHeaders == Line("end", "", "")

NewHandler ==
    [ver |-> "HTTP/0.9", command |-> "", buf |-> << >>, wire |-> << >>,
     file |-> NoFile]

\* BaseHTTPRequestHandler.send_response_only: nothing for HTTP/0.9.
SendResponseOnly(h, code) ==
    IF h.ver # "HTTP/0.9"
    THEN [h EXCEPT !.buf = Append(@, Line("status", "HTTP/1.0", code))]
    ELSE h

\* BaseHTTPRequestHandler.send_header: nothing for HTTP/0.9.
SendHeader(h, keyword, value) ==
    IF h.ver # "HTTP/0.9"
    THEN [h EXCEPT !.buf = Append(@, Line("header", keyword, value))]
    ELSE h

\* BaseHTTPRequestHandler.end_headers, reached by super().end_headers():
\* the blank line, then flush_headers.
BaseEndHeaders(h) ==
    IF h.ver # "HTTP/0.9"
    THEN [h EXCEPT !.wire = @ \o h.buf \o <<EndOfHeaders>>, !.buf = << >>]
    ELSE h

CorsHeaders ==
    <<Line("header", "Access-Control-Allow-Origin", "*"),
      Line("header", "Access-Control-Allow-Methods", "GET, POST, OPTIONS"),
      Line("header", "Access-Control-Allow-Headers", "Content-Type")>>

\* A handler that adds the headers after the header block is finished.
EndHeadersLate(h) ==
    SendHeader(
      SendHeader(
        SendHeader(BaseEndHeaders(h), "Access-Control-Allow-Origin", "*"),
        "Access-Control-Allow-Methods", "GET, POST, OPTIONS"),
      "Access-Control-Allow-Headers", "Content-Type")

\* MyHTTPRequestHandler.end_headers.
EndHeaders(h) ==
    BaseEndHeaders(
      SendHeader(
        SendHeader(
          SendHeader(h, "Access-Control-Allow-Origin", "*"),
          "Access-Control-Allow-Methods", "GET, POST, OPTIONS"),
        "Access-Control-Allow-Headers", "Content-Type"))

\* self.wfile.write / copyfile: body bytes go straight to the connection.
Write(h, kind, data) == [h EXCEPT !.wire = Append(@, Line("body", kind, data))]

\* BaseHTTPRequestHandler.send_response.
SendResponse(h, code) ==
    SendHeader(SendHeader(SendResponseOnly(h, code), "Server", "SimpleHTTP"),
               "Date", "now")

\* An error response that finishes its headers with the base class's
\* end_headers instead of the handler's own.
SendErrorBaseEnd(h, code) ==
    LET h1 == SendHeader(SendResponse(h, code), "Connection", "close")
        h2 == SendHeader(SendHeader(h1, "Content-Type", "text/html;charset=utf-8"),
                         "Content-Length", "len")
        h3 == BaseEndHeaders(h2)
    IN IF h.command # "HEAD" THEN Write(h3, "error", code) ELSE h3

\* BaseHTTPRequestHandler.send_error: every code used here is >= 200.
SendError(h, code) ==
    LET hasBody == code \notin {"204", "205", "304"}
        h1 == SendHeader(SendResponse(h, code), "Connection", "close")
        h2 == IF hasBody
              THEN SendHeader(SendHeader(h1, "Content-Type", "text/html;charset=utf-8"),
                              "Content-Length", "len")
              ELSE h1
        h3 == EndHeaders(h2)
    IN IF h.command # "HEAD" /\ hasBody THEN Write(h3, "error", code) ELSE h3

(***************************************************************************)
(* SimpleHTTPRequestHandler.send_head, list_directory, do_GET, do_HEAD.    *)
(***************************************************************************)
NoBody == [kind |-> "none", path |-> NoFile]

\* The part of send_head after the directory case: open the file, answer
\* 404, 304 or 200.
ServeFile(h, req, p, trail) ==
    IF trail \/ ~(IsFile(p) /\ FS[p].readable)
    THEN [h |-> SendError(h, "404"), f |-> NoBody]
    ELSE IF req.ims # -1 /\ FS[p].mtime <= req.ims
         THEN [h |-> EndHeaders(SendResponse([h EXCEPT !.file = p], "304")),
               f |-> NoBody]
         ELSE [h |-> EndHeaders(
                       SendHeader(
                         SendHeader(
                           SendHeader(SendResponse([h EXCEPT !.file = p], "200"),
                                      "Content-type", "guess"),
                           "Content-Length", "len"),
                         "Last-Modified", "mtime")),
               f |-> [kind |-> "file", path |-> p]]

ListDirectory(h, p) ==
    [h |-> EndHeaders(
             SendHeader(
               SendHeader(SendResponse([h EXCEPT !.file = p], "200"),
                          "Content-type", "text/html"),
               "Content-Length", "len")),
     f |-> [kind |-> "listing", path |-> p]]

SendHead(h, req) ==
    LET t == TranslatePath(req.path)
        p == OsResolve(t.fs, << >>)
        index == p \o <<"index.html">>
        index2 == p \o <<"index.htm">>
    IN IF IsDir(p)
       THEN IF ~(req.path.trail \/ req.path.segs = << >>)
            THEN [h |-> EndHeaders(
                          SendHeader(
                            SendHeader(SendResponse(h, "301"), "Location", "path/"),
                            "Content-Length", "0")),
                  f |-> NoBody]
            ELSE IF IsFile(index) THEN ServeFile(h, req, index, FALSE)
            ELSE IF IsFile(index2) THEN ServeFile(h, req, index2, FALSE)
            ELSE ListDirectory(h, p)
       ELSE ServeFile(h, req, p, t.trail)

DoGET(h, req) ==
    LET r == SendHead(h, req) IN
    IF r.f.kind = "file" THEN Write(r.h, "file", FS[r.f.path].data)
    ELSE IF r.f.kind = "listing" THEN Write(r.h, "listing", "")
    ELSE r.h

DoHEAD(h, req) == SendHead(h, req).h

\* The do_* methods SimpleHTTPRequestHandler defines; the subclass adds none.
HasMethod(command) == command \in {"GET", "HEAD"}

\* BaseHTTPRequestHandler.handle_one_request with parse_request: the
\* connection's bytes after one request.
HandleOneRequest(req) ==
    IF req.version = "FOO/1.1"
    THEN SendError(NewHandler, "400")
    ELSE IF req.version = "" /\ req.method # "GET"
    THEN SendError(NewHandler, "400")
    ELSE LET h == [NewHandler EXCEPT
                     !.ver = IF req.version = "" THEN "HTTP/0.9" ELSE req.version,
                     !.command = req.method]
         IN IF ~HasMethod(req.method) THEN SendError(h, "501")
            ELSE IF req.method = "GET" THEN DoGET(h, req)
            ELSE DoHEAD(h, req)

(***************************************************************************)
(* Reading a response off the connection.                                  *)
(***************************************************************************)
\* Index of the blank line that ends the header block, 0 when the response
\* has no header block.
EndIndex(wire) ==
    IF \E i \in 1..Len(wire) : wire[i] = EndOfHeaders
    THEN CHOOSE i \in 1..Len(wire) :
            /\ wire[i] = EndOfHeaders
            /\ \A j \in 1..(i - 1) : wire[j] # EndOfHeaders
    ELSE 0

HeaderBlock(wire) == SubSeq(wire, 1, EndIndex(wire))

\* The status code of the status line, "none" when there is no status line.
StatusOf(wire) ==
    IF wire # << >> /\ wire[1].t = "status" /\ EndIndex(wire) > 0
    THEN wire[1].v
    ELSE "none"

HasCors(wire) ==
    \A i \in 1..Len(CorsHeaders) :
        \E j \in 1..Len(HeaderBlock(wire)) : HeaderBlock(wire)[j] = CorsHeaders[i]

\* The body: what follows the header block.
BodyOf(wire) == SubSeq(wire, EndIndex(wire) + 1, Len(wire))

(***************************************************************************)
(* The process: module level, then main().                                 *)
(***************************************************************************)
VARIABLES
    pc,         \* "chdir", "bind", "banner", "serve", "stopped"
    sockOpen,   \* the listening socket is bound and open
    stdout,     \* what print has written, message by message
    stderr,     \* the messages written to standard error, each kept once
    exitCode,   \* the process's exit status, -1 while it runs
    err,        \* the error a startup step raised, if any
    sigint,     \* "none", "pending" (signal arrived), "raised"
    backlog,    \* how many connections wait in the listen queue
    handling,   \* accepted connections whose handler is running
    responded,  \* connections whose handler has written its response
    last        \* the last request handled and what was sent back

vars == <<pc, sockOpen, stdout, stderr, exitCode, err, sigint, backlog,
          handling, responded, last>>

Conns == 1..MaxConns

NoErr == [at |-> "none", errno |-> 0, inuse |-> FALSE, platform |-> "none"]

NoExchange == [conn |-> 0]

Range(q) == {q[i] : i \in 1..Len(q)}

\* accept() gives the new connection the lowest free descriptor.
LowestFree(used) ==
    CHOOSE c \in Conns \ used : \A d \in Conns \ used : c <= d

Lifecycle ==
    CASE pc \in {"chdir", "bind"}   -> "Starting"
      [] pc \in {"banner", "serve"} -> "Serving"
      [] OTHER                      -> "Stopped"

Init ==
    /\ pc = "chdir"
    /\ sockOpen = FALSE
    /\ stdout = << >>
    /\ stderr = {}
    /\ exitCode = -1
    /\ err = NoErr
    /\ sigint = "none"
    /\ backlog = 0
    /\ handling = {}
    /\ responded = {}
    /\ last = NoExchange

\* Python's exception hierarchy, as far as main's except clauses see it.
IsOSError(exc) == exc \in {"OSError", "ConnectionResetError"}

\* main without its "except KeyboardInterrupt" clause.
MainExceptNoInterrupt(exc) ==
    IF IsOSError(exc) THEN "except_os" ELSE "uncaught"

\* The except clauses of main's try statement.
MainExcept(exc) ==
    IF exc = "KeyboardInterrupt" THEN "except_ki"
    ELSE IF IsOSError(exc) THEN "except_os"
    ELSE "uncaught"

\* The body of "except OSError as e".
OSErrorMessages(errno) ==
    IF errno = ERRNO_CHECKED
    THEN <<"Port 8000 is already in use!", "Try a different port or stop the existing server">>
    ELSE <<"Error: ...">>

\* An exception that leaves the interpreter uncaught: traceback, exit status.
Uncaught(exc) ==
    /\ stderr' = stderr \cup {"Traceback: " \o exc}
    /\ exitCode' = IF exc = "KeyboardInterrupt" THEN 130 ELSE 1
    /\ UNCHANGED stdout

\* An exception raised inside main's try statement: the except clause that
\* matches runs and main returns, or the exception leaves main.
RaisedInMain(exc, errno) ==
    LET clause == MainExcept(exc) IN
    IF clause = "except_ki"
    THEN stdout' = Append(stdout, "Server stopped") /\ exitCode' = 0
         /\ UNCHANGED stderr
    ELSE IF clause = "except_os"
    THEN stdout' = stdout \o OSErrorMessages(errno) /\ exitCode' = 0
         /\ UNCHANGED stderr
    ELSE Uncaught(exc)

\* The interpreter checks for a pending signal before its next step, and a
\* blocked accept or read is interrupted by it: with SIGINT pending the
\* program's next step is the raise of KeyboardInterrupt.
NoSignal == sigint # "pending"

\* os.chdir(os.path.dirname(os.path.abspath(__file__))) succeeds.
ChdirOk ==
    /\ NoSignal
    /\ pc = "chdir"
    /\ pc' = "bind"
    /\ UNCHANGED <<sockOpen, stdout, stderr, exitCode, err, sigint, backlog,
                   handling, responded, last>>

\* os.chdir raises OSError (the directory is gone or cannot be entered):
\* the call is at module level, outside any try statement.
ChdirFails ==
    /\ NoSignal
    /\ pc = "chdir"
    /\ err' = [at |-> "chdir", errno |-> 2, inuse |-> FALSE, platform |-> "none"]
    /\ Uncaught("OSError")
    /\ pc' = "stopped"
    /\ UNCHANGED <<sockOpen, sigint, backlog, handling, responded, last>>

\* socketserver.TCPServer(("", PORT), MyHTTPRequestHandler) binds and listens.
BindOk ==
    /\ NoSignal
    /\ pc = "bind"
    /\ sockOpen' = TRUE
    /\ pc' = "banner"
    /\ UNCHANGED <<stdout, stderr, exitCode, err, sigint, backlog, handling,
                   responded, last>>

\* The constructor raises OSError: the port is held by another process
\* (errno EADDRINUSE of the platform), or the bind fails for another reason.
BindFails ==
    /\ NoSignal
    /\ pc = "bind"
    /\ \E platform \in Platforms, inuse \in BOOLEAN :
         \E errno \in (IF inuse THEN {EADDRINUSE(platform)} ELSE OtherErrnos) :
            /\ err' = [at |-> "bind", errno |-> errno, inuse |-> inuse,
                       platform |-> platform]
            /\ RaisedInMain("OSError", errno)
    /\ pc' = "stopped"
    /\ UNCHANGED <<sockOpen, sigint, backlog, handling, responded, last>>

\* The print calls between the constructor and serve_forever.
PrintBanner ==
    /\ NoSignal
    /\ pc = "banner"
    /\ stdout' = Append(stdout, "Test server started! ...")
    /\ pc' = "serve"
    /\ UNCHANGED <<sockOpen, stderr, exitCode, err, sigint, backlog, handling,
                   responded, last>>

\* A client connects: the kernel queues the connection on the listening
\* socket.
ClientConnect ==
    /\ sockOpen
    /\ backlog + Cardinality(handling) < MaxConns
    /\ backlog' = backlog + 1
    /\ UNCHANGED <<pc, sockOpen, stdout, stderr, exitCode, err, sigint,
                   handling, responded, last>>

\* A server whose process_request starts a thread and returns.
MayAcceptThreading(running) == TRUE

\* TCPServer.process_request calls finish_request and returns only when the
\* handler has: serve_forever reaches the next accept with no handler running.
MayAccept(running) == running = {}

\* serve_forever -> _handle_request_noblock -> get_request (accept).
Accept ==
    /\ NoSignal
    /\ pc = "serve"
    /\ backlog > 0
    /\ MayAccept(handling)
    /\ handling' = handling \cup {LowestFree(handling)}
    /\ backlog' = backlog - 1
    /\ UNCHANGED <<pc, sockOpen, stdout, stderr, exitCode, err, sigint,
                   responded, last>>

\* The handler reads the client's request and answers it.
HandleRequest(c) ==
    /\ NoSignal
    /\ pc = "serve"
    /\ c \in handling \ responded
    /\ \E req \in Requests :
         LET h == HandleOneRequest(req) IN
         last' = [conn |-> c, req |-> req, wire |-> h.wire, file |-> h.file]
    /\ responded' = responded \cup {c}
    /\ UNCHANGED <<pc, sockOpen, stdout, stderr, exitCode, err, sigint,
                   backlog, handling>>

\* The handler returns; shutdown_request closes the connection.
FinishRequest(c) ==
    /\ NoSignal
    /\ pc = "serve"
    /\ c \in responded
    /\ handling' = handling \ {c}
    /\ responded' = responded \ {c}
    /\ last' = IF last.conn = c THEN NoExchange ELSE last
    /\ UNCHANGED <<pc, sockOpen, stdout, stderr, exitCode, err, sigint, backlog>>

\* A server that lets a handler's exception out of serve_forever.
CaughtByServerNever(exc) == FALSE

\* _handle_request_noblock: "except Exception: self.handle_error(...)".
CaughtByServer(exc) == exc # "KeyboardInterrupt"

\* The client resets the connection before sending its request: the handler
\* raises ConnectionResetError.  The server logs it and closes the
\* connection; were it not caught it would unwind serve_forever and the
\* with statement into main's except clauses.
HandlerRaises(c) ==
    /\ NoSignal
    /\ pc = "serve"
    /\ c \in handling \ responded
    /\ IF CaughtByServer("ConnectionResetError")
       THEN /\ handling' = handling \ {c}
            /\ stderr' = stderr \cup {"Exception occurred during processing of request"}
            /\ UNCHANGED <<pc, sockOpen, stdout, exitCode, backlog,
                           responded, last>>
       ELSE /\ RaisedInMain("ConnectionResetError", 104)
            /\ pc' = "stopped"
            /\ sockOpen' = FALSE
            /\ handling' = {}
            /\ responded' = {}
            /\ backlog' = 0
            /\ last' = NoExchange
    /\ UNCHANGED <<err, sigint>>

\* SIGINT arrives (Ctrl+C), once.
Interrupt ==
    /\ pc # "stopped"
    /\ sigint = "none"
    /\ sigint' = "pending"
    /\ UNCHANGED <<pc, sockOpen, stdout, stderr, exitCode, err, backlog,
                   handling, responded, last>>

\* The interpreter raises KeyboardInterrupt in the main thread.  At module
\* level nothing catches it.  Inside main it passes the handler (finish),
\* _handle_request_noblock ("except: shutdown_request; raise"),
\* serve_forever and the with statement (server_close), and reaches main's
\* except clauses.
KeyboardInterrupt ==
    /\ sigint = "pending"
    /\ pc # "stopped"
    /\ sigint' = "raised"
    /\ IF pc = "chdir"
       THEN Uncaught("KeyboardInterrupt")
       ELSE RaisedInMain("KeyboardInterrupt", 0)
    /\ pc' = "stopped"
    /\ sockOpen' = FALSE
    /\ handling' = {}
    /\ responded' = {}
    /\ backlog' = 0
    /\ last' = NoExchange
    /\ UNCHANGED err

Next ==
    \/ ChdirOk
    \/ ChdirFails
    \/ BindOk
    \/ BindFails
    \/ PrintBanner
    \/ ClientConnect
    \/ Accept
    \/ \E c \in Conns : HandleRequest(c)
    \/ \E c \in Conns : FinishRequest(c)
    \/ \E c \in Conns : HandlerRaises(c)
    \/ Interrupt
    \/ KeyboardInterrupt

Spec == Init /\ [][Next]_vars

\* The interpreter does raise a pending KeyboardInterrupt (at its next
\* check, or when the blocked system call returns EINTR).  Nothing else is
\* forced: clients may stay away or stall, the user may never press Ctrl+C.
FairSpec == Spec /\ WF_vars(KeyboardInterrupt)

(***************************************************************************)
(* Properties.                                                             *)
(***************************************************************************)
Answered == last # NoExchange /\ last.wire # << >>

CorsNames == {CorsHeaders[i].k : i \in 1..Len(CorsHeaders)}

\* The three headers are in the header block, and no line of the response
\* gives one of their names another value or a place after the block.
CorsExact(wire) ==
    /\ HasCors(wire)
    /\ \A i \in 1..Len(wire) :
          wire[i].k \in CorsNames =>
              i < EndIndex(wire) /\ wire[i] \in Range(CorsHeaders)

\* C1, as stated: every response the server sends, whatever the request,
\* carries the three CORS headers in its header block.
C1_EveryResponseHasCors == Answered => CorsExact(last.wire)

\* C1, amended: every response that has a header block (the request line
\* carried a version the server accepts) carries the three CORS headers,
\* with exactly their values, before the blank line that ends the block.
C1_EveryHeaderBlockHasCors ==
    (Answered /\ EndIndex(last.wire) > 0) => CorsExact(last.wire)

C1_Witness ==
    /\ Answered
    /\ StatusOf(last.wire) = "501"
    /\ CorsExact(last.wire)

\* The local path a request path is mapped to.
Target(path) == OsResolve(TranslatePath(path).fs, << >>)

\* The request path is the root-relative path of f, written plainly.
NamesFile(path, f) ==
    /\ UnderRoot(f)
    /\ IsFile(f)
    /\ path.segs = SubSeq(f, Len(Root) + 1, Len(f))
    /\ ~path.trail

FilesUnderRoot == {f \in DOMAIN FS : UnderRoot(f) /\ IsFile(f)}

FileBody(f) == <<Line("body", "file", FS[f].data)>>

HasDotDot(path) ==
    \E i \in 1..Len(path.segs) : path.segs[i] \in {"..", "%2E%2E", "..%2Fa"}

C7_GetReturnsFile ==
    \A f \in FilesUnderRoot :
        (/\ last # NoExchange
         /\ last.req.method = "GET"
         /\ last.req.version \in {"HTTP/1.1", ""}
         /\ NamesFile(last.req.path, f))
        => (StatusOf(last.wire) = "200" /\ BodyOf(last.wire) = FileBody(f))

\* C7, amended: a GET with an HTTP/1.x request line and no If-Modified-Since
\* date at or after the file's modification time, for the root-relative
\* path of a regular file under the root that the server can open, returns
\* 200 and the file's bytes.
C7_PlainGetReturnsFile ==
    \A f \in FilesUnderRoot :
        (/\ last # NoExchange
         /\ last.req.method = "GET"
         /\ last.req.version = "HTTP/1.1"
         /\ NamesFile(last.req.path, f)
         /\ FS[f].readable
         /\ (last.req.ims = -1 \/ last.req.ims < FS[f].mtime))
        => (StatusOf(last.wire) = "200" /\ BodyOf(last.wire) = FileBody(f))

C7_Witness ==
    /\ last # NoExchange
    /\ last.req.method = "GET"
    /\ last.req.version = "HTTP/1.1"
    /\ last.req.ims = 0
    /\ NamesFile(last.req.path, <<"w", "s", "a">>)
    /\ StatusOf(last.wire) = "200"
    /\ BodyOf(last.wire) = FileBody(<<"w", "s", "a">>)

\* C8, as stated: a GET for a path that maps to nothing under the root
\* returns 404 and the 404 response carries the three CORS headers.
C8_MissingIs404WithCors ==
    (/\ last # NoExchange
     /\ last.req.method = "GET"
     /\ last.req.version \in {"HTTP/1.1", ""}
     /\ ~Exists(Target(last.req.path)))
    => (StatusOf(last.wire) = "404" /\ CorsExact(last.wire))

\* C8, amended: a GET with an HTTP/1.x request line for a path that maps
\* to nothing under the root returns 404 with the three CORS headers.
C8_MissingIs404WithCorsHttp1 ==
    (/\ last # NoExchange
     /\ last.req.method = "GET"
     /\ last.req.version = "HTTP/1.1"
     /\ ~Exists(Target(last.req.path)))
    => (StatusOf(last.wire) = "404" /\ CorsExact(last.wire))

C8_Witness ==
    /\ last # NoExchange
    /\ last.req.method = "GET"
    /\ last.req.version = "HTTP/1.1"
    /\ ~Exists(Target(last.req.path))
    /\ StatusOf(last.wire) = "404"
    /\ CorsExact(last.wire)

\* C9: a GET, HEAD or OPTIONS request is answered with static-file
\* semantics (200, 301, 304 or 404 by what the path maps to), never
\* rejected as an unsupported method.
C9_OptionsIsServed ==
    (/\ last # NoExchange
     /\ last.req.method \in {"GET", "HEAD", "OPTIONS"}
     /\ last.req.version = "HTTP/1.1")
    => StatusOf(last.wire) \in {"200", "301", "304", "404"}

Printed(msg) == \E i \in 1..Len(stdout) : stdout[i] = msg

Served == Printed("Test server started! ...")

\* C2: a bind that fails because another process holds the port prints the
\* "already in use" diagnostic and its hint, not the generic message, and
\* the process stops without having served.
C2_InUseIsDiagnosed ==
    (pc = "stopped" /\ err.at = "bind" /\ err.inuse) =>
        /\ Printed("Port 8000 is already in use!")
        /\ Printed("Try a different port or stop the existing server")
        /\ ~Printed("Error: ...")
        /\ ~Served

InterruptRaised == sigint = "pending" /\ sigint' = "raised"

StartupFailed(places) == err = NoErr /\ err'.at \in places

\* The lifecycle moves only along the three transitions, Starting leaving
\* for Stopped only for one of the given reasons, Serving leaving only on an
\* interrupt, and Stopped never left.
LifecycleStep(startupStops) ==
    Lifecycle' # Lifecycle =>
        \/ /\ Lifecycle = "Starting" /\ Lifecycle' = "Serving"
           /\ ~sockOpen /\ sockOpen'
        \/ /\ Lifecycle = "Starting" /\ Lifecycle' = "Stopped"
           /\ startupStops
        \/ /\ Lifecycle = "Serving" /\ Lifecycle' = "Stopped"
           /\ InterruptRaised

\* C3, as stated: Starting -> Serving when the bind succeeds, Starting ->
\* Stopped when the bind fails, Serving -> Stopped on an interrupt, and
\* nothing else; no request moves the server out of Serving.
C3_OnlyTransitions == [][LifecycleStep(StartupFailed({"bind"}))]_vars

\* C3, amended: as stated, except that Starting -> Stopped is taken when
\* the bind fails, when the change of directory fails, or when an interrupt
\* arrives during startup.
C3_OnlyTransitionsAnyStartupStop ==
    [][LifecycleStep(StartupFailed({"bind", "chdir"}) \/ InterruptRaised)]_vars

\* A handler has raised and the server is still serving.
C3_Witness ==
    /\ Lifecycle = "Serving"
    /\ "Exception occurred during processing of request" \in stderr

CleanStop ==
    /\ pc = "stopped"
    /\ ~sockOpen
    /\ handling = {}
    /\ stdout # << >> /\ stdout[Len(stdout)] = "Server stopped"
    /\ stderr \subseteq {"Exception occurred during processing of request"}
    /\ exitCode = 0

\* C4: an interrupt that arrives while the server is Serving, idle or in a
\* request, leads to the listening socket closed, no connection handled,
\* "Server stopped" printed and exit status 0.
C4_InterruptStopsCleanly ==
    (sigint = "pending" /\ Lifecycle = "Serving") ~> CleanStop

C4_Witness == CleanStop /\ sigint = "raised" /\ Served

\* C5: every error raised during startup (chdir, bind) ends in a printed
\* message and exit status 0, with no traceback.
C5_StartupErrorsCaught ==
    (pc = "stopped" /\ err # NoErr) =>
        /\ exitCode = 0
        /\ stdout # << >>
        /\ stderr = {}

\* C10: at most one request is being handled, and a connection is accepted
\* only when no handler is running, so a stalled client holds back every
\* later one.
C10_OneAtATime ==
    [][/\ Cardinality(handling') <= 1
       /\ (handling' \ handling # {} => handling = {})]_vars

\* A client stalls in its request while a later client waits in the queue.
C10_Witness ==
    /\ handling # {}
    /\ responded = {}
    /\ backlog > 0

====
